---- MODULE Spec2Model ----
(***************************************************************************)
(* Model of the API access layer of AutoPartFe: the token store, the       *)
(* request interceptor and the response interceptor that refreshes the     *)
(* access token on a 401 and queues the requests that fail meanwhile.      *)
(*                                                                         *)
(* Execution is a single-threaded event loop.  One action is one task of   *)
(* the loop: the arrival of a network response together with everything    *)
(* the handlers do synchronously on it.  Promise reactions scheduled by a  *)
(* task (the re-issue of a request released from the queue) are kept in    *)
(* microQ and run before any other task is taken.                          *)
(*                                                                         *)
(* Around the API client the module also models the token store on its    *)
(* own, the normalisation of errors by the hooks, the query client with   *)
(* the login and logout mutations, useApi, the warehouse form and the     *)
(* dashboard navigation, each with a specification of its own.            *)
(***************************************************************************)
EXTENDS Integers, Sequences, FiniteSets, TLC

\* ---------------------------------------------------------------- bounds
NumReq   == 3      \* requests the application sends in one run
MaxTok   == 2      \* distinct token values the backend hands out
Max401   == 3      \* 401 responses the backend gives in one run
NumQueries == 2    \* reads and mutations run through the query client
NumExecutes == 3   \* calls of execute made on one useApi
MaxEdits == 1      \* edits of a warehouse location started in one run
MaxChildren == 2   \* child routes of /dashboard in a route table

Req   == 1..NumReq
Tok   == 1..MaxTok
NoTok == 0                     \* localStorage.getItem(...) === null
TokOrNone == Tok \cup {NoTok}

\* Calls sent through apiClient.  The specifications below send data calls;
\* kind also tells the login and logout calls apart (CallerSettle), whose
\* callers write the token store when the call settles.
Kinds == {"data"}

VARIABLES
    accessToken,    \* localStorage[auth_token]
    refreshToken,   \* localStorage[refresh_token]
    isRefreshing,   \* module-level flag
    failedQueue,    \* module-level queue of deferred completions (by request)
    location,       \* window.location.href
    kind,           \* what each request is: a data call, login or logout
    st,             \* position of each request
    retry,          \* originalRequest._retry
    hdr,            \* token in the Authorization header of the request
    result,         \* what the caller of the request observed
    microQ,         \* released requests whose re-issue reaction is pending
    newTok,         \* token / refreshToken of the last refresh response
    n401,           \* 401 responses received so far
    refreshCalls,   \* calls made to POST /api/v1/token/refresh
    owner,          \* request whose handler last set isRefreshing (0: none)
    cyc,            \* owner of the refresh cycle a request last joined
    refreshFailed,  \* a refresh call failed and no login stored tokens since
    storeCalls,     \* calls made on tokenManager, oldest first
    hookCall,       \* the hook called last, and what its API function did
    surfaced,       \* what that hook handed to its caller
    queries,        \* reads and mutations run by the query client
    cache,          \* query cache: the entry of each read
    authMutation,   \* the useLogin / useLogout mutation in use
    callerOnSuccess,\* the onSuccess passed by the caller has run
    useApiState,    \* useApi: { data, error, loading }
    executes,       \* useApi: position of each call of execute
    useApiLog,      \* useApi: calls of execute and reset, oldest first
    warehousesData, \* useWarehouses: the list of warehouse locations
    isSubmitting,   \* useWarehouses: an update is under way
    editingWarehouse,     \* WarehousesPage: the record being edited
    isWarehouseModalOpen, \* WarehousesPage: the form modal is shown
    pendingUpdate,  \* the update whose timer has not fired yet
    edits,          \* edits started so far
    childRoutes,    \* children of the /dashboard route
    navItems,       \* DashboardLayout: the sidebar items rendered
    pathname,       \* path the browser is at
    matched         \* page the router shows for pathname

\* State of the API client apart from the two stored tokens.
clientVars == <<isRefreshing, failedQueue, location, kind, st, retry, hdr,
                result, microQ, newTok, n401, refreshCalls, owner, cyc,
                refreshFailed>>

\* State of the parts of the application around the API client.
errVars == <<hookCall, surfaced>>
queryVars == <<queries, cache, authMutation, callerOnSuccess>>
useApiVars == <<useApiState, executes, useApiLog>>
warehouseVars == <<warehousesData, isSubmitting, editingWarehouse,
                   isWarehouseModalOpen, pendingUpdate, edits>>
navVars == <<childRoutes, navItems, pathname, matched>>
pageVars == <<storeCalls, errVars, queryVars, useApiVars, warehouseVars,
              navVars>>

\* Everything outside each part.
storeRest == <<clientVars, errVars, queryVars, useApiVars, warehouseVars,
               navVars>>
errRest == <<accessToken, refreshToken, clientVars, storeCalls, queryVars,
             useApiVars, warehouseVars, navVars>>
queryRest == <<accessToken, refreshToken, clientVars, storeCalls, errVars,
               useApiVars, warehouseVars, navVars>>
useApiRest == <<accessToken, refreshToken, clientVars, storeCalls, errVars,
                queryVars, warehouseVars, navVars>>
warehouseRest == <<accessToken, refreshToken, clientVars, storeCalls,
                   errVars, queryVars, useApiVars, navVars>>
navRest == <<accessToken, refreshToken, clientVars, storeCalls, errVars,
             queryVars, useApiVars, warehouseVars>>

vars == <<accessToken, refreshToken, clientVars, pageVars>>

\* The parts around the API client, not in use.
StoreIdle == storeCalls = <<>>

ErrIdle ==
    /\ hookCall = [hook |-> "none", outcome |-> "none"]
    /\ surfaced = [kind |-> "none"]

QueryIdle ==
    /\ queries = [q \in 1..NumQueries |->
                    [kind |-> "read", status |-> "idle", attempts |-> 0,
                     failureCount |-> 0, delay |-> 0]]
    /\ cache = [q \in 1..NumQueries |-> "none"]
    /\ authMutation = [hook |-> "none", status |-> "idle"]
    /\ callerOnSuccess = FALSE

Null == 0                      \* data: null, error: null

UseApiIdle ==
    /\ useApiState = [data |-> Null, error |-> Null, loading |-> FALSE]
    /\ executes = [c \in 1..NumExecutes |-> "idle"]
    /\ useApiLog = <<>>

\* A value that may be null or undefined: <<>> when it is, <<v>> else.
Nothing == <<>>
Just(v) == <<v>>

MOCK_WAREHOUSES ==
    << [id |-> "1", zoneCode |-> Just("A"), aisle |-> 1, shelf |-> 3,
        bin |-> Just("01"), isOverstocked |-> FALSE],
       [id |-> "2", zoneCode |-> Just("A"), aisle |-> 2, shelf |-> 5,
        bin |-> Just("02"), isOverstocked |-> TRUE],
       [id |-> "3", zoneCode |-> Just("B"), aisle |-> 1, shelf |-> 2,
        bin |-> Just("A1"), isOverstocked |-> FALSE],
       [id |-> "4", zoneCode |-> Just("B"), aisle |-> 3, shelf |-> 4,
        bin |-> Just("B2"), isOverstocked |-> FALSE],
       [id |-> "5", zoneCode |-> Just("C"), aisle |-> 1, shelf |-> 1,
        bin |-> Nothing, isOverstocked |-> TRUE],
       [id |-> "6", zoneCode |-> Nothing, aisle |-> 5, shelf |-> 2,
        bin |-> Just("03"), isOverstocked |-> FALSE] >>

WarehouseIdle ==
    /\ warehousesData = MOCK_WAREHOUSES
    /\ isSubmitting = FALSE
    /\ editingWarehouse = Nothing
    /\ isWarehouseModalOpen = FALSE
    /\ pendingUpdate = Nothing
    /\ edits = 0

\* A path is the sequence of its segments and slashes:
\* "/dashboard/warehouse" is << "/", "dashboard", "/", "warehouse" >>.
DashboardPath == << "/", "dashboard" >>

\* dashboardRoutes: the children of the "/dashboard" route
DashboardChildren ==
    << [index |-> TRUE, path |-> Nothing, label |-> Just(<< "Home" >>)],
       [index |-> FALSE,
        path |-> Just(<< "/", "dashboard", "/", "warehouse" >>),
        label |-> Just(<< "Warehouse" >>)] >>

NavIdle ==
    /\ childRoutes = DashboardChildren
    /\ navItems = <<>>
    /\ pathname = << "/" >>
    /\ matched = "HomePage"

PageIdle ==
    /\ StoreIdle
    /\ ErrIdle
    /\ QueryIdle
    /\ UseApiIdle
    /\ WarehouseIdle
    /\ NavIdle

\* --------------------------------------------------------------- helpers
RECURSIVE SeqToSet(_)
SeqToSet(s) == IF s = <<>> THEN {} ELSE {Head(s)} \cup SeqToSet(Tail(s))

\* tokenManager.clearTokens
clearTokens_AccessOnly == [access |-> NoTok, refresh |-> refreshToken]
clearTokens == [access |-> NoTok, refresh |-> NoTok]

\* Variant: the interceptor never attaches the stored token.
RequestInterceptor_Never(h, store) == h

\* Variant: a header that is already present is not replaced.
RequestInterceptor_KeepsHeader(h, store) == IF h # NoTok THEN h ELSE store

\* request interceptor: attach the stored token when there is one
RequestInterceptor(h, store) == IF store # NoTok THEN store ELSE h

\* The caller's continuation once its request has settled with outcome:
\* the store it leaves and what its own caller sees.  loginWithToken
\* stores the tokens a successful response carries and rethrows a failure;
\* logoutWithCleanup swallows a failure and clears the store in finally;
\* any other call leaves the store alone and hands the outcome on.
CallerSettle_LogoutRethrows(k, outcome, store, t, rt) ==
    CASE k = "login" /\ outcome = "ok" ->
            [access  |-> IF t  # NoTok THEN t  ELSE store.access,
             refresh |-> IF rt # NoTok THEN rt ELSE store.refresh,
             seen    |-> outcome]
      [] k = "logout" /\ outcome = "ok" ->
            [access  |-> clearTokens.access,
             refresh |-> clearTokens.refresh,
             seen    |-> "ok"]
      [] OTHER ->
            [access  |-> store.access,
             refresh |-> store.refresh,
             seen    |-> outcome]

CallerSettle_LoginKeepsRefresh(k, outcome, store, t, rt) ==
    CASE k = "login" /\ outcome = "ok" ->
            [access  |-> IF t  # NoTok THEN t  ELSE store.access,
             refresh |-> store.refresh,
             seen    |-> outcome]
      [] k = "logout" ->
            [access  |-> clearTokens.access,
             refresh |-> clearTokens.refresh,
             seen    |-> "ok"]
      [] OTHER ->
            [access  |-> store.access,
             refresh |-> store.refresh,
             seen    |-> outcome]

CallerSettle(k, outcome, store, t, rt) ==
    CASE k = "login" /\ outcome = "ok" ->
            [access  |-> IF t  # NoTok THEN t  ELSE store.access,
             refresh |-> IF rt # NoTok THEN rt ELSE store.refresh,
             seen    |-> outcome]
      [] k = "logout" ->
            [access  |-> clearTokens.access,
             refresh |-> clearTokens.refresh,
             seen    |-> "ok"]
      [] OTHER ->
            [access  |-> store.access,
             refresh |-> store.refresh,
             seen    |-> outcome]

\* A successful login whose response carries a token.
LoginStores(k, outcome, t, rt) ==
    k = "login" /\ outcome = "ok" /\ (t # NoTok \/ rt # NoTok)

Store == [access |-> accessToken, refresh |-> refreshToken]

\* ------------------------------------------------------------------ Init
Init ==
    /\ accessToken \in TokOrNone
    /\ refreshToken \in TokOrNone
    /\ isRefreshing = FALSE
    /\ failedQueue = <<>>
    /\ location = "/"
    /\ kind = [r \in Req |-> "data"]
    /\ st = [r \in Req |-> "idle"]
    /\ retry = [r \in Req |-> FALSE]
    /\ hdr = [r \in Req |-> NoTok]
    /\ result = [r \in Req |-> "none"]
    /\ microQ = <<>>
    /\ newTok = [token |-> NoTok, refreshToken |-> NoTok]
    /\ n401 = 0
    /\ refreshCalls = 0
    /\ owner = 0
    /\ cyc = [r \in Req |-> 0]
    /\ refreshFailed = FALSE
    /\ PageIdle

\* --------------------------------------------------------------- actions
\* The application calls an endpoint through apiClient.
Send(r, k) ==
    /\ microQ = <<>>
    /\ st[r] = "idle"
    /\ \A q \in Req : q < r => st[q] # "idle"
    /\ kind' = [kind EXCEPT ![r] = k]
    /\ st' = [st EXCEPT ![r] = "inflight"]
    /\ hdr' = [hdr EXCEPT ![r] = RequestInterceptor(NoTok, accessToken)]
    /\ UNCHANGED <<accessToken, refreshToken, isRefreshing, failedQueue,
                   location, retry, result, microQ, newTok, n401,
                   refreshCalls, owner, cyc>>
    /\ UNCHANGED <<refreshFailed, pageVars>>

\* The state after a request settles for its caller with the given outcome.
Settle(r, outcome, store, t, rt) ==
    LET s == CallerSettle(kind[r], outcome, store, t, rt) IN
    /\ st' = [st EXCEPT ![r] = "done"]
    /\ result' = [result EXCEPT ![r] = s.seen]
    /\ accessToken' = s.access
    /\ refreshToken' = s.refresh
    /\ refreshFailed' = (refreshFailed /\ ~LoginStores(kind[r], outcome, t, rt))
    /\ UNCHANGED pageVars

\* A 2xx response: the response interceptor passes it through.
Respond200(r, t, rt) ==
    /\ microQ = <<>>
    /\ st[r] = "inflight"
    /\ kind[r] # "login" => (t = NoTok /\ rt = NoTok)
    /\ Settle(r, "ok", Store, t, rt)
    /\ UNCHANGED <<isRefreshing, failedQueue, location, kind, retry, hdr,
                   microQ, newTok, n401, refreshCalls, owner, cyc>>

\* Variant: every failed response is treated as an authentication failure.
RespondError_AsAuthFailure(r) ==
    /\ microQ = <<>>
    /\ st[r] = "inflight"
    /\ location' = "/login"
    /\ Settle(r, "errOther", clearTokens, NoTok, NoTok)
    /\ UNCHANGED <<isRefreshing, failedQueue, kind, retry, hdr,
                   microQ, newTok, n401, refreshCalls, owner, cyc>>

\* A response with another error status, or no response at all.
RespondError(r) ==
    /\ microQ = <<>>
    /\ st[r] = "inflight"
    /\ Settle(r, "errOther", Store, NoTok, NoTok)
    /\ UNCHANGED <<isRefreshing, failedQueue, location, kind, retry, hdr,
                   microQ, newTok, n401, refreshCalls, owner, cyc>>

\* Variant: the _retry marker is not consulted.
Handles401_IgnoresRetry(r) == TRUE

\* error.response?.status === 401 && !originalRequest._retry
Handles401(r) == ~retry[r]

\* Variant: the flag is not consulted.
InRefreshingState_Never == FALSE

\* if (isRefreshing)
InRefreshingState == isRefreshing

\* 401 on a request that was already retried: the error propagates.
Propagate401(r) ==
    /\ ~Handles401(r)
    /\ Settle(r, "err401", Store, NoTok, NoTok)
    /\ UNCHANGED <<isRefreshing, failedQueue, location, kind, retry, hdr,
                   microQ, newTok, refreshCalls, owner, cyc>>

\* Variant: the request is parked and also sent again at once.
Enqueue401_RetriesAtOnce(r) ==
    /\ Handles401(r)
    /\ InRefreshingState
    /\ failedQueue' = Append(failedQueue, r)
    /\ cyc' = [cyc EXCEPT ![r] = owner]
    /\ hdr' = [hdr EXCEPT ![r] = RequestInterceptor(hdr[r], accessToken)]
    /\ UNCHANGED <<accessToken, refreshToken, isRefreshing, location, kind,
                   st, retry, result, microQ, newTok, refreshCalls, owner>>
    /\ UNCHANGED <<refreshFailed, pageVars>>

\* 401 while a refresh is in progress: park a deferred completion.
Enqueue401(r) ==
    /\ Handles401(r)
    /\ InRefreshingState
    /\ failedQueue' = Append(failedQueue, r)
    /\ st' = [st EXCEPT ![r] = "queued"]
    /\ cyc' = [cyc EXCEPT ![r] = owner]
    /\ UNCHANGED <<accessToken, refreshToken, isRefreshing, location, kind,
                   retry, hdr, result, microQ, newTok, refreshCalls, owner>>
    /\ UNCHANGED <<refreshFailed, pageVars>>

\* The flag once the handler has returned on the no-refresh-token path:
\* the return at line 143 is outside the try, so finally does not run.
FlagAfterNoRefreshToken == TRUE

\* Variant: the stored tokens are left in place.
NoRefreshToken_KeepsTokens(r) ==
    /\ Handles401(r)
    /\ ~InRefreshingState
    /\ refreshToken = NoTok
    /\ retry' = [retry EXCEPT ![r] = TRUE]
    /\ isRefreshing' = FlagAfterNoRefreshToken
    /\ location' = "/login"
    /\ Settle(r, "err401", Store, NoTok, NoTok)
    /\ owner' = r
    /\ cyc' = [cyc EXCEPT ![r] = r]
    /\ UNCHANGED <<failedQueue, kind, hdr, microQ, newTok, refreshCalls>>

\* 401 in Idle without a stored refresh token.
NoRefreshToken(r) ==
    /\ Handles401(r)
    /\ ~InRefreshingState
    /\ refreshToken = NoTok
    /\ retry' = [retry EXCEPT ![r] = TRUE]
    /\ isRefreshing' = FlagAfterNoRefreshToken
    /\ location' = "/login"
    /\ Settle(r, "err401", clearTokens, NoTok, NoTok)
    /\ owner' = r
    /\ cyc' = [cyc EXCEPT ![r] = r]
    /\ UNCHANGED <<failedQueue, kind, hdr, microQ, newTok, refreshCalls>>

\* 401 in Idle with a refresh token: call the refresh endpoint and await.
IssueRefresh(r) ==
    /\ Handles401(r)
    /\ ~InRefreshingState
    /\ refreshToken # NoTok
    /\ retry' = [retry EXCEPT ![r] = TRUE]
    /\ isRefreshing' = TRUE
    /\ st' = [st EXCEPT ![r] = "refreshing"]
    /\ refreshCalls' = refreshCalls + 1
    /\ owner' = r
    /\ cyc' = [cyc EXCEPT ![r] = r]
    /\ UNCHANGED <<accessToken, refreshToken, failedQueue, location, kind,
                   hdr, result, microQ, newTok>>
    /\ UNCHANGED <<refreshFailed, pageVars>>

\* The response interceptor's error handler on a 401.
Respond401(r) ==
    /\ microQ = <<>>
    /\ st[r] = "inflight"
    /\ n401 < Max401
    /\ n401' = n401 + 1
    /\ \/ Propagate401(r)
       \/ Enqueue401(r)
       \/ NoRefreshToken(r)
       \/ IssueRefresh(r)

\* Variant: only the first deferred is settled before the queue is emptied.
processQueue_HeadOnly(error, q) ==
    [rejected |-> IF error /\ q # <<>> THEN {Head(q)} ELSE {},
     released |-> IF error \/ q = <<>> THEN <<>> ELSE <<Head(q)>>,
     queue    |-> <<>>]

\* Variant: the error argument is ignored, every deferred is resolved.
processQueue_IgnoresError(error, q) ==
    [rejected |-> {},
     released |-> q,
     queue    |-> <<>>]

\* Variant: the deferreds are settled last-in first-out.
processQueue_Reversed(error, q) ==
    [rejected |-> IF error THEN SeqToSet(q) ELSE {},
     released |-> IF error THEN <<>>
                  ELSE [k \in 1..Len(q) |-> q[Len(q) + 1 - k]],
     queue    |-> <<>>]

\* processQueue(error, token): settle every deferred, empty the queue.
processQueue(error, q) ==
    [rejected |-> IF error THEN SeqToSet(q) ELSE {},
     released |-> IF error THEN <<>> ELSE q,
     queue    |-> <<>>]

\* Positions and outcomes once the deferreds of pq are settled and the
\* initiating request i has moved to position ist with outcome ires.
AfterSettle(pq, i, ist, ires) ==
    [st |-> [r \in Req |->
                IF r = i THEN ist
                ELSE IF r \in pq.rejected THEN "done"
                ELSE IF r \in SeqToSet(pq.released) THEN "released"
                ELSE st[r]],
     result |-> [r \in Req |->
                IF r = i THEN
                    IF ist = "done"
                    THEN CallerSettle(kind[i], ires, clearTokens,
                                      NoTok, NoTok).seen
                    ELSE ires
                ELSE IF r \in pq.rejected THEN
                    CallerSettle(kind[r], "refreshError", clearTokens,
                                 NoTok, NoTok).seen
                ELSE result[r]]]

\* Variant: the new access token is not written to the store.
StoreAfterRefresh_KeepsAccess(t, rt) ==
    [access  |-> accessToken,
     refresh |-> IF rt # NoTok THEN rt ELSE refreshToken]

\* Variant: the refresh token is overwritten also when none was returned.
StoreAfterRefresh_OverwritesRefresh(t, rt) ==
    [access  |-> t,
     refresh |-> rt]

\* setToken(newToken); if (newRefreshToken) setRefreshToken(newRefreshToken)
StoreAfterRefresh(t, rt) ==
    [access  |-> t,
     refresh |-> IF rt # NoTok THEN rt ELSE refreshToken]

\* The refresh call resolved: continuation of the initiating handler.
RefreshSuccess(i, t, rt) ==
    LET s  == StoreAfterRefresh(t, rt)
        pq == processQueue(FALSE, failedQueue)
        a  == AfterSettle(pq, i, "inflight", result[i])
    IN
    /\ microQ = <<>>
    /\ st[i] = "refreshing"
    /\ accessToken' = s.access
    /\ refreshToken' = s.refresh
    /\ newTok' = [token |-> t, refreshToken |-> rt]
    /\ failedQueue' = pq.queue
    /\ microQ' = pq.released
    /\ st' = a.st
    /\ result' = a.result
    /\ hdr' = [hdr EXCEPT ![i] = RequestInterceptor(t, s.access)]
    /\ isRefreshing' = FALSE
    /\ UNCHANGED <<location, kind, retry, n401, refreshCalls, owner, cyc>>
    /\ UNCHANGED <<refreshFailed, pageVars>>

\* How a refresh call can fail: answered 401, or any other failure.
RefreshErrors == {"401", "other"}

\* Variant: a 401 from the refresh endpoint starts another refresh call.
RefreshFail_Retries401(i, e) ==
    LET pq == processQueue(TRUE, failedQueue)
        a  == AfterSettle(pq, i, "done", "refreshError")
    IN
    /\ microQ = <<>>
    /\ st[i] = "refreshing"
    /\ IF e = "401"
       THEN /\ refreshCalls' = refreshCalls + 1
            /\ UNCHANGED <<failedQueue, microQ, st, result, accessToken,
                           refreshToken, location, isRefreshing>>
       ELSE /\ failedQueue' = pq.queue
            /\ microQ' = pq.released
            /\ st' = a.st
            /\ result' = a.result
            /\ accessToken' = clearTokens.access
            /\ refreshToken' = clearTokens.refresh
            /\ location' = "/login"
            /\ isRefreshing' = FALSE
            /\ UNCHANGED refreshCalls
    /\ UNCHANGED <<kind, retry, hdr, newTok, n401, owner, cyc>>
    /\ refreshFailed' = TRUE
    /\ UNCHANGED pageVars

\* The refresh call rejected with e: catch branch of the initiating
\* handler.  The call is made with the bare axios, not with apiClient, so
\* its failure never reaches the response interceptor, and the catch does
\* not look at the status.
RefreshFail(i, e) ==
    LET pq == processQueue(TRUE, failedQueue)
        a  == AfterSettle(pq, i, "done", "refreshError")
    IN
    /\ microQ = <<>>
    /\ st[i] = "refreshing"
    /\ failedQueue' = pq.queue
    /\ microQ' = pq.released
    /\ st' = a.st
    /\ result' = a.result
    /\ accessToken' = clearTokens.access
    /\ refreshToken' = clearTokens.refresh
    /\ location' = "/login"
    /\ isRefreshing' = FALSE
    /\ UNCHANGED <<kind, retry, hdr, newTok, n401, refreshCalls, owner, cyc>>
    /\ refreshFailed' = TRUE
    /\ UNCHANGED pageVars

\* Reaction of a released deferred: .then(() => apiClient(originalRequest))
Reissue ==
    /\ microQ # <<>>
    /\ LET r == Head(microQ) IN
        /\ st' = [st EXCEPT ![r] = "inflight"]
        /\ hdr' = [hdr EXCEPT ![r] = RequestInterceptor(hdr[r], accessToken)]
    /\ microQ' = Tail(microQ)
    /\ UNCHANGED <<accessToken, refreshToken, isRefreshing, failedQueue,
                   location, kind, retry, result, newTok, n401,
                   refreshCalls, owner, cyc>>
    /\ UNCHANGED <<refreshFailed, pageVars>>

Next ==
    \/ \E r \in Req, k \in Kinds : Send(r, k)
    \/ \E r \in Req, t \in TokOrNone, rt \in TokOrNone : Respond200(r, t, rt)
    \/ \E r \in Req : RespondError(r)
    \/ \E r \in Req : Respond401(r)
    \/ \E i \in Req, t \in Tok, rt \in TokOrNone : RefreshSuccess(i, t, rt)
    \/ \E i \in Req, e \in RefreshErrors : RefreshFail(i, e)
    \/ Reissue

Spec == Init /\ [][Next]_vars

\* Every network call eventually returns and every pending promise
\* reaction runs; the application is never obliged to send a request.
\* The application with its authentication calls: login and logout go
\* through the same client as data calls, and their wrappers act on the
\* token store when the call settles.
NumAuthReq == 2    \* requests sent in a run that includes login and logout

AuthKinds == {"data", "login", "logout"}

NextAuth ==
    \/ \E r \in 1..NumAuthReq, k \in AuthKinds : r \in Req /\ Send(r, k)
    \/ \E r \in Req, t \in TokOrNone, rt \in TokOrNone : Respond200(r, t, rt)
    \/ \E r \in Req : RespondError(r)
    \/ \E r \in Req : Respond401(r)
    \/ \E i \in Req, t \in Tok, rt \in TokOrNone : RefreshSuccess(i, t, rt)
    \/ \E i \in Req, e \in RefreshErrors : RefreshFail(i, e)
    \/ Reissue

SpecAuth == Init /\ [][NextAuth]_vars

Fairness ==
    /\ \A r \in Req :
          WF_vars(\/ \E t \in TokOrNone, rt \in TokOrNone : Respond200(r, t, rt)
                  \/ RespondError(r)
                  \/ Respond401(r))
    /\ \A i \in Req :
          WF_vars(\/ \E t \in Tok, rt \in TokOrNone : RefreshSuccess(i, t, rt)
                  \/ \E e \in RefreshErrors : RefreshFail(i, e))
    /\ WF_vars(Reissue)

FairSpec == Init /\ [][Next]_vars /\ Fairness

\* ------------------------------------------------ a burst of N requests
\* N requests are in flight together, sent while a session was stored
\* (a refresh token is present) and no refresh was in progress.
InitBurst ==
    /\ accessToken \in TokOrNone
    /\ refreshToken \in Tok
    /\ isRefreshing = FALSE
    /\ failedQueue = <<>>
    /\ location = "/"
    /\ kind = [r \in Req |-> "data"]
    /\ \E n \in Req :
          st = [r \in Req |-> IF r <= n THEN "inflight" ELSE "idle"]
    /\ retry = [r \in Req |-> FALSE]
    /\ hdr = [r \in Req |-> RequestInterceptor(NoTok, accessToken)]
    /\ result = [r \in Req |-> "none"]
    /\ microQ = <<>>
    /\ newTok = [token |-> NoTok, refreshToken |-> NoTok]
    /\ n401 = 0
    /\ refreshCalls = 0
    /\ owner = 0
    /\ cyc = [r \in Req |-> 0]
    /\ refreshFailed = FALSE
    /\ PageIdle

NextBurst ==
    \/ \E r \in Req, t \in TokOrNone, rt \in TokOrNone : Respond200(r, t, rt)
    \/ \E r \in Req : RespondError(r)
    \/ \E r \in Req : Respond401(r)
    \/ \E i \in Req, t \in Tok, rt \in TokOrNone : RefreshSuccess(i, t, rt)
    \/ \E i \in Req, e \in RefreshErrors : RefreshFail(i, e)
    \/ Reissue

SpecBurst == InitBurst /\ [][NextBurst]_vars

\* The burst against a backend that rejects the token every request was
\* first sent with, answers the refresh call with new tokens and accepts
\* every request that is sent again.
NextHappy ==
    \/ \E r \in Req : cyc[r] = 0 /\ Respond401(r)
    \/ \E r \in Req : cyc[r] # 0 /\ Respond200(r, NoTok, NoTok)
    \/ \E i \in Req, t \in Tok, rt \in TokOrNone : RefreshSuccess(i, t, rt)
    \/ Reissue

FairHappy == InitBurst /\ [][NextHappy]_vars /\ WF_vars(NextHappy)

\* The requests of the burst.
Sent == {r \in Req : st[r] # "idle"}

\* ------------------------------------------------------- the token store
\* tokenManager on its own: any sequence of calls, with any string as the
\* token, the empty string included.
MaxCalls == 3      \* calls made on tokenManager in one run

EmptyString == -1              \* the token ""
StoreStrings == Tok \cup {EmptyString}

\* The API client, constructed and not used.
ClientIdle ==
    /\ isRefreshing = FALSE
    /\ failedQueue = <<>>
    /\ location = "/"
    /\ kind = [r \in Req |-> "data"]
    /\ st = [r \in Req |-> "idle"]
    /\ retry = [r \in Req |-> FALSE]
    /\ hdr = [r \in Req |-> NoTok]
    /\ result = [r \in Req |-> "none"]
    /\ microQ = <<>>
    /\ newTok = [token |-> NoTok, refreshToken |-> NoTok]
    /\ n401 = 0
    /\ refreshCalls = 0
    /\ owner = 0
    /\ cyc = [r \in Req |-> 0]
    /\ refreshFailed = FALSE

\* JavaScript truthiness of what localStorage.getItem returns.
Truthy(v) == v # NoTok /\ v # EmptyString

getToken == accessToken
getRefreshToken == refreshToken
hasToken == Truthy(getToken)

setToken(t) ==
    /\ Len(storeCalls) < MaxCalls
    /\ accessToken' = t
    /\ storeCalls' = Append(storeCalls, [op |-> "setToken", arg |-> t])
    /\ UNCHANGED <<refreshToken, storeRest>>

setRefreshToken_SameKey(t) ==
    /\ Len(storeCalls) < MaxCalls
    /\ accessToken' = t
    /\ storeCalls' = Append(storeCalls, [op |-> "setRefreshToken", arg |-> t])
    /\ UNCHANGED <<refreshToken, storeRest>>

setRefreshToken(t) ==
    /\ Len(storeCalls) < MaxCalls
    /\ refreshToken' = t
    /\ storeCalls' = Append(storeCalls, [op |-> "setRefreshToken", arg |-> t])
    /\ UNCHANGED <<accessToken, storeRest>>

ClearTokens ==
    /\ Len(storeCalls) < MaxCalls
    /\ accessToken' = clearTokens.access
    /\ refreshToken' = clearTokens.refresh
    /\ storeCalls' = Append(storeCalls, [op |-> "clearTokens", arg |-> NoTok])
    /\ UNCHANGED storeRest

InitStore ==
    /\ accessToken = NoTok
    /\ refreshToken = NoTok
    /\ ClientIdle
    /\ PageIdle

NextStore ==
    \/ \E t \in StoreStrings : setToken(t)
    \/ \E t \in StoreStrings : setRefreshToken(t)
    \/ ClearTokens

SpecStore == InitStore /\ [][NextStore]_vars

\* The argument of the last call of op since the last clearTokens, absent
\* if there is none.
RECURSIVE LastSet(_, _)
LastSet(calls, op) ==
    IF calls = <<>> THEN NoTok
    ELSE LET c == calls[Len(calls)] IN
         IF c.op = "clearTokens" THEN NoTok
         ELSE IF c.op = op THEN c.arg
         ELSE LastSet(SubSeq(calls, 1, Len(calls) - 1), op)

\* ------------------------------------------------- error normalisation
\* handleApiError and the three hooks that wrap an API function.  A call
\* of a hook is one step: the API function resolves with a response or
\* throws, and the hook hands its caller the body or the normalised error.
Undefined  == "<undefined>"            \* a string field that is absent
NoStatus   == 0                        \* response?.status of no response
NoResponse == [absent |-> "response"]  \* error.response === undefined
NoData     == [absent |-> "data"]      \* a body that is not an object

Statuses == {401, 500}
Bodies   == {"body A", "body B"}

ResponseData ==
    {NoData} \cup [message : {Undefined, "", "backend message"},
                   error   : {Undefined, "", "backend error"}]

\* Errors made by axios: with the response of the backend, or without one
\* (timeout, network failure).
AxiosErrors ==
    [shape : {"AxiosError"}, message : {"", "transport message"},
     code : {"ERR_BAD_RESPONSE"},
     response : [status : Statuses, data : ResponseData]]
    \cup
    [shape : {"AxiosError"}, message : {"", "transport message"},
     code : {"ECONNABORTED", "ERR_NETWORK"},
     response : {NoResponse}]

\* Other instances of Error, and thrown values that are not errors.
PlainErrors == [shape : {"Error"}, message : {"", "plain message"}]
OtherThrown == [shape : {"Other"}]
Thrown == AxiosErrors \cup PlainErrors \cup OtherThrown

Responses == [shape : {"AxiosResponse"}, status : {200}, data : Bodies]

\* a || b on string fields
Or(a, b) == IF a = Undefined \/ a = "" THEN b ELSE a

\* axiosError.response?.status, axiosError.response?.data and its fields
StatusOf_Default500(e) ==
    IF e.response = NoResponse THEN 500 ELSE e.response.status
StatusOf(e) ==
    IF e.response = NoResponse THEN NoStatus ELSE e.response.status
DataOf(e) ==
    IF e.response = NoResponse THEN NoData ELSE e.response.data
DataMessage(e) ==
    IF DataOf(e) = NoData THEN Undefined ELSE DataOf(e).message
DataError(e) ==
    IF DataOf(e) = NoData THEN Undefined ELSE DataOf(e).error

handleApiError(error) ==
    IF error.shape = "AxiosError" THEN
        [shape   |-> "ApiError",
         message |-> Or(Or(Or(DataMessage(error), DataError(error)),
                           error.message),
                        "An unexpected error occurred"),
         status  |-> StatusOf(error),
         code    |-> error.code,
         details |-> DataOf(error)]
    ELSE IF error.shape = "Error" THEN
        [shape |-> "ApiError", message |-> error.message,
         status |-> NoStatus, code |-> Undefined, details |-> NoData]
    ELSE
        [shape |-> "ApiError", message |-> "An unknown error occurred",
         status |-> NoStatus, code |-> Undefined, details |-> NoData]

\* What the API function wrapped by a hook can do.
Outcomes ==
    [outcome : {"resolved"}, response : Responses]
    \cup [outcome : {"rejected"}, thrown : Thrown]

\* try { return (await fn()).data } catch (error) { throw handleApiError(error) }
HookResult_Rethrows(o) ==
    IF o.outcome = "resolved"
    THEN [kind |-> "data", value |-> o.response.data]
    ELSE [kind |-> "error", value |-> o.thrown]

HookResult(o) ==
    IF o.outcome = "resolved"
    THEN [kind |-> "data", value |-> o.response.data]
    ELSE [kind |-> "error", value |-> handleApiError(o.thrown)]

useFetch(o) ==
    /\ hookCall' = [hook |-> "useFetch", outcome |-> o]
    /\ surfaced' = HookResult(o)
    /\ UNCHANGED errRest

useApiMutation(o) ==
    /\ hookCall' = [hook |-> "useApiMutation", outcome |-> o]
    /\ surfaced' = HookResult(o)
    /\ UNCHANGED errRest

useApi_execute(o) ==
    /\ hookCall' = [hook |-> "useApi.execute", outcome |-> o]
    /\ surfaced' = HookResult(o)
    /\ UNCHANGED errRest

InitErr ==
    /\ accessToken = NoTok
    /\ refreshToken = NoTok
    /\ ClientIdle
    /\ PageIdle

NextErr ==
    \/ \E o \in Outcomes : useFetch(o)
    \/ \E o \in Outcomes : useApiMutation(o)
    \/ \E o \in Outcomes : useApi_execute(o)

SpecErr == InitErr /\ [][NextErr]_vars

\* The call made last threw e / is a call of hook h.
Threw == hookCall.hook # "none" /\ hookCall.outcome.outcome = "rejected"
Resolved == hookCall.hook # "none" /\ hookCall.outcome.outcome = "resolved"
GenericMessages ==
    {"An unexpected error occurred", "An unknown error occurred"}

\* ------------------------------------------------------ the query client
\* The query client with its default options, running reads and mutations
\* that may fail, and the useLogin / useLogout mutations that act on the
\* query cache when they succeed.
QueryIds == 1..NumQueries

\* defaultOptions.queries.retry and defaultOptions.mutations.retry
DefaultRetry_Mutations1(k) == 1
DefaultRetry(k) == IF k = "read" THEN 1 ELSE 0

\* retryDelay: (attemptIndex) => Math.min(1000 * 2 ** attemptIndex, 30000)
retryDelay(attemptIndex) ==
    IF 1000 * 2 ^ attemptIndex < 30000 THEN 1000 * 2 ^ attemptIndex
    ELSE 30000

\* A read is observed or a mutation is triggered: first attempt.
Fetch(q, k) ==
    /\ queries[q].status = "idle"
    /\ queries' = [queries EXCEPT ![q] =
                     [kind |-> k, status |-> "fetching", attempts |-> 1,
                      failureCount |-> 0, delay |-> 0]]
    /\ UNCHANGED <<cache, authMutation, callerOnSuccess, queryRest>>

\* The attempt under way succeeds; a read fills its cache entry.
FetchSuccess(q) ==
    /\ queries[q].status = "fetching"
    /\ queries' = [queries EXCEPT ![q].status = "success"]
    /\ cache' = IF queries[q].kind = "read"
                THEN [cache EXCEPT ![q] = "fresh"] ELSE cache
    /\ UNCHANGED <<authMutation, callerOnSuccess, queryRest>>

\* The attempt under way fails: the client waits retryDelay and tries
\* again while the failures so far are fewer than retry, else gives up.
FetchFailure(q) ==
    /\ queries[q].status = "fetching"
    /\ LET failureCount == queries[q].failureCount IN
        queries' = [queries EXCEPT ![q] =
          IF failureCount < DefaultRetry(queries[q].kind)
          THEN [queries[q] EXCEPT !.status = "waiting",
                                  !.delay = retryDelay(failureCount),
                                  !.failureCount = failureCount + 1]
          ELSE [queries[q] EXCEPT !.status = "error",
                                  !.failureCount = failureCount + 1]]
    /\ UNCHANGED <<cache, authMutation, callerOnSuccess, queryRest>>

\* The delay has passed: next attempt.
Retry(q) ==
    /\ queries[q].status = "waiting"
    /\ queries' = [queries EXCEPT ![q].status = "fetching",
                                  ![q].attempts = @ + 1]
    /\ UNCHANGED <<cache, authMutation, callerOnSuccess, queryRest>>

\* Options a caller can pass to useLogin / useLogout: for each callback,
\* no such key, or the caller's function.
MutationOptions == [onSuccess : {"absent", "caller"},
                    onError : {"absent", "caller"}]

\* { ...a, ...b } on option objects
Spread(a, b) ==
    [k \in DOMAIN a |-> IF b[k] # "absent" THEN b[k] ELSE a[k]]

\* useMutation({ mutationFn, onSuccess: (wrapper), ...options })
MergedOptions(options) ==
    Spread([onSuccess |-> "wrapper", onError |-> "absent"], options)

\* queryClient.invalidateQueries() and queryClient.clear()
invalidateQueries(c) ==
    [q \in QueryIds |-> IF c[q] = "fresh" THEN "stale" ELSE c[q]]
clear(c) == [q \in QueryIds |-> "none"]

\* The component calls the hook with its options and triggers the mutation.
Mutate(h, options) ==
    /\ authMutation.status = "idle"
    /\ authMutation' = [hook |-> h, status |-> "pending",
                        options |-> options]
    /\ UNCHANGED <<queries, cache, callerOnSuccess, queryRest>>

\* mutationFn resolved: the client runs the onSuccess of the options the
\* hook gave it.  The wrapper acts on the cache and then calls the
\* caller's onSuccess if there is one.
MutationSuccess ==
    /\ authMutation.status = "pending"
    /\ authMutation' = [authMutation EXCEPT !.status = "success"]
    /\ LET m == MergedOptions(authMutation.options).onSuccess IN
        /\ cache' = IF m = "wrapper"
                    THEN IF authMutation.hook = "useLogin"
                         THEN invalidateQueries(cache) ELSE clear(cache)
                    ELSE cache
        /\ callerOnSuccess' =
              IF m = "caller" THEN TRUE
              ELSE IF m = "wrapper"
                      /\ authMutation.options.onSuccess = "caller" THEN TRUE
              ELSE callerOnSuccess
    /\ UNCHANGED <<queries, queryRest>>

\* mutationFn rejected (loginWithToken only: logoutWithCleanup never does).
MutationError ==
    /\ authMutation.status = "pending"
    /\ authMutation.hook = "useLogin"
    /\ authMutation' = [authMutation EXCEPT !.status = "error"]
    /\ UNCHANGED <<queries, cache, callerOnSuccess, queryRest>>

InitQuery ==
    /\ accessToken = NoTok
    /\ refreshToken = NoTok
    /\ ClientIdle
    /\ PageIdle

NextQuery ==
    \/ \E q \in QueryIds, k \in {"read", "mutation"} : Fetch(q, k)
    \/ \E q \in QueryIds : FetchSuccess(q)
    \/ \E q \in QueryIds : FetchFailure(q)
    \/ \E q \in QueryIds : Retry(q)
    \/ \E h \in {"useLogin", "useLogout"}, o \in MutationOptions :
            Mutate(h, o)
    \/ MutationSuccess
    \/ MutationError

SpecQuery == InitQuery /\ [][NextQuery]_vars

\* ------------------------------------------------------------- useApi
\* One component using useApi.  Calls of execute may overlap; each call is
\* two steps, the part before the await and the part after it.  The body
\* or the error the backend gives to call c is written c.
Executes == 1..NumExecutes

\* execute, up to the await: setState({ data: null, error: null, loading: true })
execute(c) ==
    /\ executes[c] = "idle"
    /\ \A d \in Executes : d < c => executes[d] # "idle"
    /\ executes' = [executes EXCEPT ![c] = "inflight"]
    /\ useApiState' = [data |-> Null, error |-> Null, loading |-> TRUE]
    /\ useApiLog' = Append(useApiLog, c)
    /\ UNCHANGED useApiRest

\* execute, after the await, the call having resolved
executeResolved(c) ==
    /\ executes[c] = "inflight"
    /\ executes' = [executes EXCEPT ![c] = "resolved"]
    /\ useApiState' = [data |-> c, error |-> Null, loading |-> FALSE]
    /\ UNCHANGED <<useApiLog, useApiRest>>

\* execute, after the await, the call having thrown
executeRejected(c) ==
    /\ executes[c] = "inflight"
    /\ executes' = [executes EXCEPT ![c] = "rejected"]
    /\ useApiState' = [data |-> Null, error |-> c, loading |-> FALSE]
    /\ UNCHANGED <<useApiLog, useApiRest>>

\* reset
reset ==
    /\ useApiLog # <<>>
    /\ useApiLog[Len(useApiLog)] # Null
    /\ useApiState' = [data |-> Null, error |-> Null, loading |-> FALSE]
    /\ useApiLog' = Append(useApiLog, Null)
    /\ UNCHANGED <<executes, useApiRest>>

InitUseApi ==
    /\ accessToken = NoTok
    /\ refreshToken = NoTok
    /\ ClientIdle
    /\ PageIdle

NextUseApi ==
    \/ \E c \in Executes : execute(c)
    \/ \E c \in Executes : executeResolved(c)
    \/ \E c \in Executes : executeRejected(c)
    \/ reset

SpecUseApi == InitUseApi /\ [][NextUseApi]_vars

\* -------------------------------------------------- warehouse locations
\* The warehouses page: a record is opened in WarehouseFormModal, the form
\* is submitted with valid values, and updateWarehouse applies the update
\* when its timer fires.

\* What form.validateFields() can return: zoneCode and bin are optional
\* text, aisle and shelf are required numbers not below 0, isOverstocked
\* is the switch.
FormValues ==
    [zoneCode : {Nothing, Just(""), Just("Z")},
     aisle : {Just(0), Just(9)},
     shelf : {Just(0), Just(9)},
     bin : {Nothing, Just("99")},
     isOverstocked : {Just(FALSE), Just(TRUE)}]

\* v || null, where falsy is the falsy value of v's type
OrNull(v, falsy) == IF v = Nothing \/ v = Just(falsy) THEN Nothing ELSE v

\* d ?? old, old never null
Coalesce(d, old) == IF d = Nothing THEN old ELSE d[1]

\* d ?? old, old possibly null
CoalesceOpt(d, old) == IF d = Nothing THEN old ELSE d

\* WarehouseFormModal.handleSubmit, editing: the update request
SubmitData(id, values) ==
    [id |-> id,
     zoneCode |-> OrNull(values.zoneCode, ""),
     aisle |-> OrNull(values.aisle, 0),
     shelf |-> OrNull(values.shelf, 0),
     bin |-> OrNull(values.bin, ""),
     isOverstocked |-> OrNull(values.isOverstocked, FALSE)]

\* the record updateWarehouse puts in place of item
Updated(item, data) ==
    [item EXCEPT !.zoneCode = CoalesceOpt(data.zoneCode, item.zoneCode),
                 !.aisle = Coalesce(data.aisle, item.aisle),
                 !.shelf = Coalesce(data.shelf, item.shelf),
                 !.bin = CoalesceOpt(data.bin, item.bin),
                 !.isOverstocked =
                     Coalesce(data.isOverstocked, item.isOverstocked)]

handleEditWarehouse(k) ==
    /\ edits < MaxEdits
    /\ k \in 1..Len(warehousesData)
    /\ ~isWarehouseModalOpen
    /\ editingWarehouse' = Just(warehousesData[k])
    /\ isWarehouseModalOpen' = TRUE
    /\ edits' = edits + 1
    /\ UNCHANGED <<warehousesData, isSubmitting, pendingUpdate,
                   warehouseRest>>

handleCancelWarehouse ==
    /\ isWarehouseModalOpen
    /\ pendingUpdate = Nothing
    /\ isWarehouseModalOpen' = FALSE
    /\ editingWarehouse' = Nothing
    /\ UNCHANGED <<warehousesData, isSubmitting, pendingUpdate, edits,
                   warehouseRest>>

\* The form is valid: handleSubmit builds the request and, through
\* handleSubmitWarehouse, updateWarehouse starts its timer.
handleSubmit(values) ==
    /\ isWarehouseModalOpen
    /\ editingWarehouse # Nothing
    /\ pendingUpdate = Nothing
    /\ LET id == editingWarehouse[1].id IN
        pendingUpdate' = Just([id |-> id, values |-> values,
                               data |-> SubmitData(id, values)])
    /\ isSubmitting' = TRUE
    /\ UNCHANGED <<warehousesData, editingWarehouse, isWarehouseModalOpen,
                   edits, warehouseRest>>

\* The timer fires: the list is mapped, the promise resolves, and the
\* page closes the modal.
updateWarehouse ==
    /\ pendingUpdate # Nothing
    /\ LET u == pendingUpdate[1] IN
        warehousesData' =
            [k \in 1..Len(warehousesData) |->
                IF warehousesData[k].id = u.id
                THEN Updated(warehousesData[k], u.data)
                ELSE warehousesData[k]]
    /\ isSubmitting' = FALSE
    /\ pendingUpdate' = Nothing
    /\ isWarehouseModalOpen' = FALSE
    /\ editingWarehouse' = Nothing
    /\ UNCHANGED <<edits, warehouseRest>>

InitWarehouse ==
    /\ accessToken = NoTok
    /\ refreshToken = NoTok
    /\ ClientIdle
    /\ PageIdle

NextWarehouse ==
    \/ \E k \in DOMAIN MOCK_WAREHOUSES : handleEditWarehouse(k)
    \/ handleCancelWarehouse
    \/ \E values \in FormValues : handleSubmit(values)
    \/ updateWarehouse

SpecWarehouse == InitWarehouse /\ [][NextWarehouse]_vars

\* ------------------------------------------------- dashboard navigation
\* DashboardLayout builds the sidebar from the children of the /dashboard
\* route, and the router resolves the path a sidebar link leads to.  The
\* layout is run on the route table of the application and on other small
\* tables of index routes, routes with an absolute or a relative path and
\* routes with neither.
RouteObjects ==
    {r \in [index : BOOLEAN,
            path : {Nothing, Just(<< "warehouse" >>),
                    Just(<< "/", "dashboard", "/", "warehouse" >>)},
            label : {Nothing, Just(<< "Warehouse" >>)}] :
        r.index => r.path = Nothing}
    \cup {DashboardChildren[k] : k \in 1..Len(DashboardChildren)}

RECURSIVE RouteTables(_)
RouteTables(n) ==
    IF n = 0 THEN {<<>>}
    ELSE RouteTables(n - 1)
         \cup {Append(t, r) : t \in {u \in RouteTables(n - 1) :
                                          Len(u) = n - 1},
                              r \in RouteObjects}

\* route.path.charAt(0).toUpperCase() + route.path.slice(1)
UpperCase(c) ==
    CASE c = "warehouse" -> "Warehouse"
      [] c = "dashboard" -> "Dashboard"
      [] OTHER -> c
Capitalize(p) == [p EXCEPT ![1] = UpperCase(p[1])]

\* One sidebar item (DashboardLayout, the map callback)
NavItem(route) ==
    [label |-> IF route.label # Nothing THEN route.label[1]
               ELSE IF route.path # Nothing THEN Capitalize(route.path[1])
               ELSE << "Home" >>,
     href |-> IF route.path # Nothing
              THEN DashboardPath \o route.path[1]
              ELSE DashboardPath]

\* childRoutes.filter((route) => route.path || route.index).map(...)
RECURSIVE NavItems(_)
NavItems(routes) ==
    IF routes = <<>> THEN <<>>
    ELSE LET r == Head(routes) IN
         IF r.path # Nothing \/ r.index
         THEN << NavItem(r) >> \o NavItems(Tail(routes))
         ELSE NavItems(Tail(routes))

\* The path at which the router serves a child of /dashboard: an absolute
\* path as it is, a relative one under the parent's.
FullPath(route) ==
    IF route.path = Nothing THEN DashboardPath
    ELSE IF route.path[1][1] = "/" THEN route.path[1]
    ELSE DashboardPath \o << "/" >> \o route.path[1]

RoutePaths(children) ==
    {DashboardPath} \cup {FullPath(children[k]) : k \in 1..Len(children)}

\* The page createBrowserRouter shows for a path.
Match(p, children) ==
    IF p = << "/" >> THEN "HomePage"
    ELSE IF p = << "/", "login" >> THEN "LoginPage"
    ELSE IF p = << "/", "signup" >> THEN "SignUpPage"
    ELSE IF p \in RoutePaths(children) THEN "DashboardLayout"
    ELSE "NotFoundPage"

\* login page: navigate("/dashboard")
NavigateToDashboard ==
    /\ pathname # DashboardPath
    /\ navItems = <<>>
    /\ pathname' = DashboardPath
    /\ matched' = Match(DashboardPath, childRoutes)
    /\ UNCHANGED <<childRoutes, navItems, navRest>>

\* DashboardLayout renders.
RenderDashboardLayout ==
    /\ matched = "DashboardLayout"
    /\ navItems # NavItems(childRoutes)
    /\ navItems' = NavItems(childRoutes)
    /\ UNCHANGED <<childRoutes, pathname, matched, navRest>>

\* The user follows sidebar link i: the browser loads its href.
FollowLink(i) ==
    /\ matched = "DashboardLayout"
    /\ i \in 1..Len(navItems)
    /\ pathname' = navItems[i].href
    /\ matched' = Match(navItems[i].href, childRoutes)
    /\ UNCHANGED <<childRoutes, navItems, navRest>>

InitNav ==
    /\ accessToken = NoTok
    /\ refreshToken = NoTok
    /\ ClientIdle
    /\ StoreIdle /\ ErrIdle /\ QueryIdle /\ UseApiIdle /\ WarehouseIdle
    /\ childRoutes \in RouteTables(MaxChildren)
    /\ navItems = <<>>
    /\ pathname = << "/" >>
    /\ matched = "HomePage"

NextNav ==
    \/ NavigateToDashboard
    \/ RenderDashboardLayout
    \/ \E i \in 1..MaxChildren : FollowLink(i)

SpecNav == InitNav /\ [][NextNav]_vars

\* ================================================================ claims

\* C1: in every reachable state at most one call to the refresh endpoint
\* is in flight.
C1_OneRefreshInFlight ==
    Cardinality({r \in Req : st[r] = "refreshing"}) <= 1

C1_Witness ==
    \E i, q \in Req : st[i] = "refreshing" /\ st[q] = "queued" /\ cyc[q] = i

\* Every request of the burst has received exactly one 401.
AllFailedOnce ==
    /\ n401 = Cardinality(Sent)
    /\ \A r \in Sent : cyc[r] # 0

\* Some refresh call has returned.
RefreshSettled ==
    \/ newTok.token # NoTok
    \/ \E r \in Req : result[r] = "refreshError"

\* C2 as stated: once each of the N requests of a burst has received its
\* first 401, in whatever order these and the refresh response arrived,
\* one refresh call has been issued in total and all N belong to its cycle.
C2_OneRefreshAnyOrder ==
    AllFailedOnce =>
        /\ refreshCalls = 1
        /\ \E i \in Sent : \A r \in Sent : cyc[r] = i

\* C2 amended: when the N first 401s of a burst all arrive before the
\* refresh response, one refresh call has been issued, the other N-1
\* requests are queued behind it, and the step in which the refresh call
\* returns takes all of them off the queue together (all released or all
\* rejected) without a further refresh call.
C2_OneRefreshWhenAllFailFirst ==
    [][(AllFailedOnce /\ ~RefreshSettled) =>
        /\ refreshCalls = 1
        /\ \E i \in Sent :
            /\ st[i] = "refreshing"
            /\ \A r \in Sent \ {i} : st[r] = "queued" /\ cyc[r] = i
            /\ Len(failedQueue) = Cardinality(Sent) - 1
            /\ RefreshSettled' =>
                /\ refreshCalls' = 1
                /\ failedQueue' = <<>>
                /\ \/ \A r \in Sent \ {i} : st'[r] = "released"
                   \/ \A r \in Sent \ {i} :
                        st'[r] = "done" /\ result'[r] = "refreshError"]_vars

C2_Witness ==
    /\ AllFailedOnce
    /\ RefreshSettled
    /\ refreshCalls = 1
    /\ Cardinality(Sent) = 3
    /\ Len(microQ) = 2

\* C3: between tasks the refresh-in-progress flag is set only while the
\* handler that set it is still awaiting the refresh call; once that
\* handler has returned, on any path, the flag is false.
C3_FlagClearedOnReturn ==
    isRefreshing => \E i \in Req : st[i] = "refreshing"

\* C4: a request parked on the pending queue eventually leaves it, settled.
C4_QueuedEventuallySettled ==
    \A r \in Req :
        (st[r] = "queued") ~> (st[r] \in {"released", "inflight", "done"})

\* C5: a 401 on a request already marked _retry is propagated to the
\* caller; no refresh call, no queueing, no re-issue, and the flag, the
\* queue and the stored tokens are unchanged.
C5_RetriedPropagates ==
    [][\A r \in Req :
        (retry[r] /\ st[r] = "inflight" /\ n401' = n401 + 1
                  /\ st'[r] # st[r])
        => /\ st'[r] = "done"
           /\ result'[r] = "err401"
           /\ refreshCalls' = refreshCalls
           /\ UNCHANGED <<isRefreshing, failedQueue, accessToken,
                          refreshToken, microQ, hdr>>]_vars

C5_Witness ==
    \E r \in Req :
        /\ retry[r]
        /\ result[r] = "err401"
        /\ hdr[r] = newTok.token
        /\ location = "/"

\* C6: a request that was queued, released and sent again, and then gets a
\* 401 again, has that 401 propagated; no refresh call, no queueing.
C6_RequeuedPropagates ==
    [][\A r \in Req :
        (cyc[r] \notin {0, r} /\ st[r] = "inflight" /\ n401' = n401 + 1
                              /\ st'[r] # st[r])
        => /\ st'[r] = "done"
           /\ result'[r] = "err401"
           /\ refreshCalls' = refreshCalls
           /\ failedQueue' = failedQueue]_vars

\* C7: a 401 that arrives on a request not yet retried while the flag is
\* set appends that request to the pending queue and issues no refresh
\* call; a queued request leaves the queue only when the queue is drained.
C7_QueuedWhileRefreshing ==
    [][/\ (isRefreshing /\ n401' = n401 + 1) =>
            \/ \E r \in Req : /\ retry[r] /\ st[r] = "inflight"
                              /\ st'[r] = "done"
            \/ \E r \in Req : /\ ~retry[r] /\ st[r] = "inflight"
                              /\ st'[r] = "queued"
                              /\ failedQueue' = Append(failedQueue, r)
                              /\ refreshCalls' = refreshCalls
                              /\ hdr'[r] = hdr[r]
       /\ \A r \in Req :
            st[r] = "queued" =>
                /\ r \in SeqToSet(failedQueue)
                /\ st'[r] = "queued" \/ failedQueue' = <<>>]_vars

C7_Witness ==
    /\ isRefreshing
    /\ Len(failedQueue) = 2
    /\ \A k \in 1..2 : st[failedQueue[k]] = "queued"

\* C8: whenever a request is sent again after a successful refresh (the
\* initiating one or one released from the queue), the store holds the
\* access token of the refresh response, and its refresh token if it had
\* one, and the request carries that access token.
C8_StoreUpdatedBeforeReissue ==
    [][\A r \in Req :
        (st[r] \in {"refreshing", "released"} /\ st'[r] = "inflight")
        => /\ newTok'.token # NoTok
           /\ accessToken' = newTok'.token
           /\ newTok'.refreshToken # NoTok =>
                  refreshToken' = newTok'.refreshToken
           /\ hdr'[r] = newTok'.token]_vars

C8_Witness ==
    \E r \in Req :
        /\ cyc[r] \notin {0, r}
        /\ st[r] = "inflight"
        /\ hdr[r] = newTok.token
        /\ newTok.refreshToken # NoTok
        /\ refreshToken = newTok.refreshToken

\* The refresh call of c has just succeeded with two requests queued.
ThreeReleased(c) ==
    /\ owner = c
    /\ st[c] = "inflight"
    /\ Len(microQ) = 2

\* C9: when three requests fail with 401 in one refresh cycle, the refresh
\* succeeds and the backend accepts the new token, the re-issued first
\* request carries the refreshed token and eventually all three callers
\* have succeeded, each request having carried that same token.
C9_ThreeSucceedWithSameToken ==
    \A c \in Req :
        /\ [](ThreeReleased(c) =>
                hdr[c] = newTok.token /\ accessToken = newTok.token)
        /\ ThreeReleased(c) ~>
                (\A r \in Req : cyc[r] = c =>
                    result[r] = "ok" /\ hdr[r] = hdr[c])

C9_Witness ==
    \E c \in Req :
        /\ Cardinality({r \in Req : cyc[r] = c}) = 3
        /\ \A r \in Req : cyc[r] = c =>
                result[r] = "ok" /\ hdr[r] = hdr[c]

\* C10: when the refresh call fails, the initiating caller and every
\* queued request are rejected with the refresh error, both stored tokens
\* are removed and the location is /login.
C10_RefreshFailRejectsAll ==
    [][\A i \in Req :
        (st[i] = "refreshing" /\ st'[i] = "done")
        => /\ result'[i] = "refreshError"
           /\ \A r \in SeqToSet(failedQueue) :
                  st'[r] = "done" /\ result'[r] = "refreshError"
           /\ failedQueue' = <<>>
           /\ accessToken' = NoTok
           /\ refreshToken' = NoTok
           /\ location' = "/login"]_vars

C10_Witness ==
    \E i, q \in Req :
        /\ i # q
        /\ cyc[q] = i
        /\ result[i] = "refreshError"
        /\ result[q] = "refreshError"
        /\ accessToken = NoTok
        /\ refreshToken = NoTok
        /\ location = "/login"

\* C11: a first 401 that arrives in Idle with no refresh token stored makes
\* no refresh call, removes both tokens, sets the location to /login and
\* fails the request with its 401 error, without sending it again.
C11_NoRefreshTokenIsTerminal ==
    [][\A r \in Req :
        (/\ ~retry[r] /\ st[r] = "inflight"
         /\ ~isRefreshing /\ refreshToken = NoTok
         /\ n401' = n401 + 1 /\ retry'[r])
        => /\ refreshCalls' = refreshCalls
           /\ accessToken' = NoTok
           /\ refreshToken' = NoTok
           /\ location' = "/login"
           /\ st'[r] = "done"
           /\ result'[r] = "err401"
           /\ hdr' = hdr
           /\ microQ' = microQ]_vars

C11_Witness ==
    \E r \in Req :
        /\ owner = r
        /\ retry[r]
        /\ result[r] = "err401"
        /\ refreshCalls = 0
        /\ hdr[r] # NoTok
        /\ accessToken = NoTok
        /\ location = "/login"

\* C12: the requests that failed with 401 in one refresh cycle get the
\* same kind of outcome: when the cycle's initiator gets its outcome, every
\* queued request is released with it or rejected with it, and no request
\* is left queued in a cycle whose initiator already has its outcome.
C12_ConsistentOutcome ==
    [][/\ \A i \in Req :
            (st[i] = "refreshing" /\ st'[i] # "refreshing") =>
                \/ /\ st'[i] = "inflight"
                   /\ \A r \in SeqToSet(failedQueue) : st'[r] = "released"
                \/ /\ st'[i] = "done" /\ result'[i] = "refreshError"
                   /\ \A r \in SeqToSet(failedQueue) :
                        st'[r] = "done" /\ result'[r] = "refreshError"
       /\ \A r \in Req :
            st'[r] = "queued" =>
                cyc'[r] \in Req /\ st'[cyc'[r]] = "refreshing"]_vars

\* C15: a request whose 401 arrives during a refresh is placed behind the
\* requests already queued, a successful refresh releases the queue in
\* that order, and the released requests are sent again in that order.
C15_ReleasedInArrivalOrder ==
    [][/\ failedQueue' # failedQueue =>
            \/ failedQueue' = <<>>
            \/ \E r \in Req : /\ st[r] = "inflight"
                              /\ failedQueue' = Append(failedQueue, r)
       /\ \A i \in Req :
            (st[i] = "refreshing" /\ st'[i] = "inflight") =>
                microQ' = failedQueue
       /\ microQ # <<>> =>
            /\ microQ' = Tail(microQ)
            /\ st[Head(microQ)] = "released"
            /\ st'[Head(microQ)] = "inflight"
            /\ \A r \in SeqToSet(Tail(microQ)) : st'[r] = "released"]_vars

C15_Witness ==
    /\ Len(microQ) = 1
    /\ \E r \in Req :
        /\ r > Head(microQ)
        /\ cyc[r] = cyc[Head(microQ)]
        /\ cyc[r] # r
        /\ st[r] = "inflight"

\* C16: a response that fails with a status other than 401, or without a
\* response, is rejected to the caller as it is: no refresh call, no
\* re-issue, and flag, queue, stored tokens and location are unchanged.
C16_OtherErrorsPassThrough ==
    [][\A r \in Req :
        (st[r] = "inflight" /\ result'[r] = "errOther")
        => /\ st'[r] = "done"
           /\ refreshCalls' = refreshCalls
           /\ \A q \in Req \ {r} : st'[q] = st[q] /\ result'[q] = result[q]
           /\ UNCHANGED <<isRefreshing, failedQueue, accessToken,
                          refreshToken, location, microQ, hdr, retry,
                          n401>>]_vars

C16_Witness ==
    \E r, i \in Req :
        /\ result[r] = "errOther"
        /\ st[i] = "refreshing"
        /\ failedQueue # <<>>
        /\ accessToken # NoTok

\* C17: after a successful refresh the stored refresh token is the one of
\* the refresh response if it had one, and otherwise the refresh token
\* that was stored before.
C17_RefreshTokenAfterRefresh ==
    [][\A i \in Req :
        (st[i] = "refreshing" /\ st'[i] = "inflight")
        => refreshToken' = IF newTok'.refreshToken # NoTok
                           THEN newTok'.refreshToken
                           ELSE refreshToken]_vars

C17_Witness ==
    /\ newTok.token # NoTok
    /\ newTok.refreshToken = NoTok
    /\ refreshToken # NoTok
    /\ \E i \in Req : st[i] = "inflight" /\ retry[i] /\ hdr[i] = newTok.token

\* C18: every request sent through apiClient carries the access token
\* stored at that time when there is one; when there is none its header
\* is left as it was and the request is sent all the same.
C18_BearerFromStore ==
    [][\A r \in Req :
        (st[r] \in {"idle", "released", "refreshing"} /\ st'[r] = "inflight")
        => hdr'[r] = IF accessToken' # NoTok THEN accessToken'
                     ELSE hdr[r]]_vars

C18_Witness ==
    \E r, q \in Req :
        /\ st[r] = "inflight"
        /\ accessToken # NoTok
        /\ hdr[r] = accessToken
        /\ cyc[r] \notin {0, r}
        /\ st[q] = "inflight"
        /\ hdr[q] = NoTok

C20_LogoutAlwaysClears ==
    [][\A r \in Req :
        (kind[r] = "logout" /\ st[r] # "done" /\ st'[r] = "done")
        => /\ accessToken' = NoTok
           /\ refreshToken' = NoTok
           /\ result'[r] = "ok"]_vars

\* A logout whose API call failed with a 401 that no refresh could mend has
\* ended resolved, with an empty store.
C20_Witness ==
    \E r \in Req :
        /\ kind[r] = "logout" /\ st[r] = "done" /\ result[r] = "ok"
        /\ retry[r] /\ refreshCalls = 0
        /\ accessToken = NoTok /\ refreshToken = NoTok

C13_NoRefreshAfterFailure ==
    [][refreshFailed => refreshCalls' = refreshCalls]_vars

\* After a failed refresh, a later 401 has been handled without a second
\* refresh call.
C13_Witness ==
    \E i, r \in Req :
        /\ refreshFailed /\ refreshCalls = 1
        /\ i # r /\ cyc[i] = i
        /\ st[i] = "done" /\ result[i] = "refreshError"
        /\ owner = r /\ cyc[r] = r
        /\ st[r] = "done" /\ result[r] = "err401"

\* C27: once a logout has ended and removed the tokens, and no login is
\* made, the access token stays absent, whatever requests and refresh
\* responses arrive afterwards.
C27_NoTokenAfterLogout ==
    [][(/\ \E r \in Req : kind[r] = "logout" /\ st[r] = "done"
        /\ \A r \in Req : kind[r] # "login"
        /\ accessToken = NoTok)
       => accessToken' = NoTok]_vars

C22_MessagePreference ==
    Threw =>
        LET e == hookCall.outcome.thrown
            m == surfaced.value.message
            own == IF e.shape = "Other" THEN Undefined ELSE e.message
            hasResp == e.shape = "AxiosError" /\ e.response # NoResponse
            dm == IF hasResp /\ e.response.data # NoData
                  THEN e.response.data.message ELSE Undefined
            de == IF hasResp /\ e.response.data # NoData
                  THEN e.response.data.error ELSE Undefined
        IN  /\ IF dm \notin {Undefined, ""} THEN m = dm
               ELSE IF de \notin {Undefined, ""} THEN m = de
               ELSE IF own \notin {Undefined, ""} THEN m = own
               ELSE m \in GenericMessages
            /\ hasResp => surfaced.value.status = e.response.status

\* C23: a create-mutation whose request got no HTTP response (a timeout)
\* surfaces a normalised error with no status and a non-empty message.
C23_TimeoutNormalised ==
    (/\ hookCall.hook = "useApiMutation"
     /\ Threw
     /\ hookCall.outcome.thrown.shape = "AxiosError"
     /\ hookCall.outcome.thrown.response = NoResponse)
    => /\ surfaced.kind = "error"
       /\ surfaced.value.shape = "ApiError"
       /\ surfaced.value.status = NoStatus
       /\ surfaced.value.message \notin {"", Undefined}

\* A mutation has timed out and its caller holds the normalised error
\* carrying the message of the timeout.
C23_Witness ==
    /\ hookCall.hook = "useApiMutation"
    /\ Threw
    /\ hookCall.outcome.thrown.shape = "AxiosError"
    /\ hookCall.outcome.thrown.code = "ECONNABORTED"
    /\ surfaced.value.message = "transport message"
    /\ surfaced.value.code = "ECONNABORTED"

\* C24: a failure of any of the three hooks reaches the caller as the
\* normalised error made from the thrown value, never as the thrown value
\* itself, and a success yields the body of the response and nothing else.
C24_HooksNormalise ==
    /\ Threw => /\ surfaced.kind = "error"
                /\ surfaced.value.shape = "ApiError"
                /\ surfaced.value # hookCall.outcome.thrown
                /\ surfaced.value = handleApiError(hookCall.outcome.thrown)
    /\ Resolved => /\ surfaced.kind = "data"
                   /\ surfaced.value \in Bodies
                   /\ surfaced.value = hookCall.outcome.response.data

\* A read through useFetch has failed with a 500 of the backend and its
\* caller holds the normalised error with the backend's error text.
C24_Witness ==
    /\ hookCall.hook = "useFetch" /\ Threw
    /\ hookCall.outcome.thrown.shape = "AxiosError"
    /\ hookCall.outcome.thrown.response # NoResponse
    /\ surfaced.value.status = 500
    /\ surfaced.value.message = "backend error"

\* C25: with the default options a read is attempted at most twice, a read
\* that ends in error was attempted exactly twice, and a mutation that
\* ends in error was attempted exactly once.
C25_DefaultRetries ==
    \A q \in QueryIds :
        /\ queries[q].kind = "read" => queries[q].attempts <= 2
        /\ (queries[q].kind = "read" /\ queries[q].status = "error")
           => queries[q].attempts = 2
        /\ queries[q].kind = "mutation" => queries[q].attempts <= 1
        /\ (queries[q].kind = "mutation" /\ queries[q].status = "error")
           => queries[q].attempts = 1

\* A read has failed after its one retry, which waited the base delay, and
\* a mutation has failed on its only attempt.
C25_Witness ==
    \E q, m \in QueryIds :
        /\ queries[q].kind = "read" /\ queries[q].status = "error"
        /\ queries[q].attempts = 2 /\ queries[q].delay = 1000
        /\ queries[m].kind = "mutation" /\ queries[m].status = "error"
        /\ queries[m].attempts = 1

\* C26: when a login made through useLogin succeeds no cache entry stays
\* fresh, when a logout made through useLogout succeeds the cache is empty,
\* and a caller's own onSuccess has been called, whatever options the
\* caller passed.
C26_CacheResetOnSuccess ==
    [][(authMutation.status = "pending" /\ authMutation'.status = "success")
       => /\ authMutation.hook = "useLogin"
             => \A q \in QueryIds : cache'[q] # "fresh"
          /\ authMutation.hook = "useLogout"
             => \A q \in QueryIds : cache'[q] = "none"
          /\ authMutation.options.onSuccess = "caller"
             => callerOnSuccess']_vars

\* C28: as long as reset is not called, loading is true whenever a call of
\* execute is in flight, and once every call has settled the state is the
\* data or the error of the call started last.
C28_LatestExecuteWins ==
    (useApiLog # <<>> /\ \A i \in 1..Len(useApiLog) : useApiLog[i] # Null)
    => LET last == useApiLog[Len(useApiLog)] IN
       /\ (\E c \in Executes : executes[c] = "inflight")
          => useApiState.loading
       /\ (\A c \in Executes : executes[c] # "inflight")
          => /\ ~useApiState.loading
             /\ executes[last] = "resolved"
                => useApiState.data = last /\ useApiState.error = Null
             /\ executes[last] = "rejected"
                => useApiState.error = last /\ useApiState.data = Null

\* C29: when updateWarehouse completes, the edited record holds the aisle,
\* shelf and isOverstocked entered in the form and the zoneCode and bin
\* typed into it, and every other record is as before.
C29_EditStoresFormValues ==
    [][(pendingUpdate # Nothing /\ pendingUpdate' = Nothing)
       => LET u == pendingUpdate[1] IN
          \A k \in 1..Len(warehousesData) :
            IF warehousesData[k].id = u.id
            THEN /\ warehousesData'[k].aisle = u.values.aisle[1]
                 /\ warehousesData'[k].shelf = u.values.shelf[1]
                 /\ warehousesData'[k].isOverstocked
                        = u.values.isOverstocked[1]
                 /\ u.values.zoneCode \notin {Nothing, Just("")}
                    => warehousesData'[k].zoneCode = u.values.zoneCode
                 /\ u.values.bin \notin {Nothing, Just("")}
                    => warehousesData'[k].bin = u.values.bin
            ELSE warehousesData'[k] = warehousesData[k]]_vars

\* C30: with the route table of the application, every sidebar item has
\* the path of a route of dashboardRoutes as its href, and following a
\* sidebar link never ends on the not-found page.
C30_SidebarLinksResolve ==
    childRoutes = DashboardChildren
    => /\ \A i \in 1..Len(navItems) :
            navItems[i].href \in RoutePaths(childRoutes)
       /\ matched # "NotFoundPage"

TypeOK ==
    /\ accessToken \in TokOrNone \cup StoreStrings
    /\ refreshToken \in TokOrNone \cup StoreStrings
    /\ isRefreshing \in BOOLEAN
    /\ st \in [Req -> {"idle", "inflight", "refreshing", "queued",
                       "released", "done"}]
    /\ result \in [Req -> {"none", "ok", "err401", "errOther",
                           "refreshError"}]
====
